---------------------------- MODULE Spec2Model ----------------------------
(***************************************************************************)
(* egui_elm: the runtime driver (src/src/app.rs), the view context         *)
(* (src/src/view.rs), commands (src/src/command.rs) and subscriptions      *)
(* (src/src/subscription.rs), with the example programs of src/examples.   *)
(*                                                                         *)
(* The driver thread runs eframe's callbacks (the creator closure,         *)
(* App::update once per redraw tick, Drop).  Command tasks and the         *)
(* subscription task run on the tokio runtime and interleave with the      *)
(* driver at every mailbox operation.                                      *)
(***************************************************************************)
EXTENDS Integers, Sequences, FiniteSets, TLC

\* ------------------------------------------------------------------ bounds

\* The mailbox capacity.  src/src/app.rs:18 sets 512; the model uses a small
\* capacity so that the full mailbox is reached.
MAILBOX_CAPACITY == 2
\* Messages the view and the subscription streams originate while the history
\* is recorded.
MaxMsgs == 2
\* Command tasks the abstract program schedules while the history is recorded,
\* and command tasks that exist at the same time.
MaxCmds == 1
CmdSlots == MaxCmds
\* Subscription tasks that exist at the same time (the running one and the
\* aborted ones the runtime has not yet dropped).
SubSlots == 2
\* ViewContext::send calls of one view call of the abstract program: one more
\* than fit the mailbox.
MaxViewSends == MAILBOX_CAPACITY + 1
\* The library calls exercised on their own: items of a finite stream,
\* members of a batch of subscriptions, commands of a batch of commands, and
\* the items after which the caller stops polling an interval.
MaxItems == 2
MaxMembers == 2
MaxBatch == 2
MaxValues == 3
\* The duration of an interval, in units of the clock of the timed runs.
Duration == 2

VARIABLES
    pc,                  \* where the driver thread is
    program,             \* the Program descriptor run() was given
    model,               \* ElmApp.model
    runtime,             \* ElmApp.runtime: "none", "Owned" or "Handle"
    mailbox,             \* the messages in the mpsc channel, oldest first
    permits,             \* free slots of the channel's semaphore
    waiters,             \* tasks suspended in Sender::send, in arrival order
    granted,             \* suspended tasks the semaphore has handed a permit
    closed,              \* the Receiver has been dropped
    commands,            \* the command tasks on the runtime, by slot
    subs,                \* the subscription tasks on the runtime, by slot
    subscription_task,   \* ElmApp.subscription_task: a slot of subs, 0 for None
    subscription_token,  \* ElmApp.subscription_token
    sends,               \* ViewContext::send calls of the current view call
    view_context,        \* a ViewContext has been handed to view (it is Clone)
    \* history (observers; never read by the program's steps, only bounded)
    logging,             \* whether the history below is recorded
    enqueued,            \* every mailbox entry ever inserted, in insertion order
    applied,             \* every mailbox entry passed to update, in call order
    scheduled,           \* command tasks scheduled so far
    derived,             \* calls of program.subscription so far
    originated,          \* messages originated by the view and the streams
    tick,                \* what happened in the current redraw tick
    timers,              \* the clock of the timed runs: whether time is
                         \* modelled, the time since update was last called
                         \* and, per subscription task, the time its Delay
                         \* has run
    \* a library call exercised on its own, as the tests of the crate do
    test,                \* the call ("none" while the driver runs)
    args,                \* its arguments
    ret,                 \* what it returned
    values,              \* the items collected from the returned stream
    tpc                  \* where the caller is: "off", "call", "poll",
                         \* "stopped" (it broke out of the loop), "done"

dvars == << pc, program, model, runtime, mailbox, permits, waiters, granted,
            closed, commands, subs, subscription_task, subscription_token,
            sends, view_context, logging, enqueued, applied, scheduled, derived, originated, tick,
            timers >>

uvars == << test, args, ret, values, tpc >>

vars == << dvars, uvars >>

chan == << mailbox, permits, waiters, granted >>
hist == << enqueued, applied, scheduled, derived, originated >>

\* ---------------------------------------------------------------- messages

Msg(tag, arg) == [tag |-> tag, arg |-> arg]

\* Option<Message> a command future resolves to.
Some(m) == [some |-> TRUE, msg |-> m]
None == [some |-> FALSE, msg |-> Msg("", 0)]

\* ------------------------------------------------------- SubscriptionToken

\* SubscriptionToken::new(value): the value with its type.
SubscriptionToken(type, value) == [some |-> TRUE, type |-> type, value |-> value]
\* Option<SubscriptionToken>::None.
NoToken == [some |-> FALSE, type |-> "", value |-> 0]

\* TokenValueImpl::equals ignoring the types of the values.
RECURSIVE TokenEqualsUntyped(_, _)
TokenEqualsUntyped(a, b) ==
    IF a.type = "vec" /\ b.type = "vec"
    THEN /\ Len(a.value) = Len(b.value)
         /\ \A k \in 1 .. Len(a.value) : TokenEqualsUntyped(a.value[k], b.value[k])
    ELSE a.type # "vec" /\ b.type # "vec" /\ a.value = b.value

\* TokenValueImpl::equals: downcast to the same type, then compare the values
\* with the type's own equality; the values of a token of type "vec" (a
\* Vec<SubscriptionToken>) are tokens, compared one by one.
RECURSIVE TokenEquals(_, _)
TokenEquals(a, b) ==
    IF a.type = b.type
    THEN IF a.type = "vec"
         THEN /\ Len(a.value) = Len(b.value)
              /\ \A k \in 1 .. Len(a.value) : TokenEquals(a.value[k], b.value[k])
         ELSE a.value = b.value
    ELSE FALSE

\* SubscriptionToken::clone (derived): another handle on the same value.
clone(token) == token

\* ------------------------------------------------------------ Subscription

\* The streams, by what poll_next does with them.
\* futures::stream::pending(): never ready.
pending == [kind |-> "pending"]
\* futures::stream::iter(items): the items, then the end.
iter(items) == [kind |-> "iter", items |-> items]
\* The stream! block of interval_with: loop { Delay; yield factory() }.
IntervalStream(factory) == [kind |-> "interval", factory |-> factory]
\* StreamExt::map(f).
MapStream(stream, f) == [kind |-> "map", f |-> f, inner |-> stream]
\* SelectAll over the members.
SelectAll(members) == [kind |-> "select_all", members |-> members]

\* The message factories of interval_with: the closure of interval, which
\* clones its message, and the counting closure of the tests.
Cloning(m) == [fn |-> "clone", msg |-> m, n |-> 0]
Counting(n) == [fn |-> "count", msg |-> Msg("Value", 0), n |-> n]

\* A factory whose closure does not keep its state.
call_stateless(factory) ==
    IF factory.fn = "clone"
    THEN [message |-> factory.msg, factory |-> factory]
    ELSE [message |-> Msg("Value", factory.n + 1), factory |-> factory]

\* message_factory(): the message and the closure's state afterwards.
call(factory) ==
    IF factory.fn = "clone"
    THEN [message |-> factory.msg, factory |-> factory]
    ELSE [message |-> Msg("Value", factory.n + 1),
          factory |-> [factory EXCEPT !.n = @ + 1]]

\* The closures given to map: on the payload of a message.
apply(f, m) ==
    CASE f = "double" -> Msg(m.tag, m.arg * 2)
      [] f = "succ" -> Msg(m.tag, m.arg + 1)
      [] OTHER -> m

\* A never-emitting subscription that carries no token.
SubscriptionNoneUntagged ==
    [stream |-> pending, token |-> NoToken]

\* Subscription::none(): a pending stream, token of the unit value.
SubscriptionNone ==
    [stream |-> pending, token |-> SubscriptionToken("unit", 0)]

\* Subscription::from_stream: no token.
from_stream(stream) == [stream |-> stream, token |-> NoToken]

\* Subscription::interval_with(duration, message_factory).
interval_with(factory) == from_stream(IntervalStream(factory))

\* Subscription::interval(duration, message).
interval(m) == interval_with(Cloning(m))

\* A batch whose token is the Vec of the tokens that are present.
batch_present_tokens(subscriptions) ==
    [stream |-> SelectAll([k \in 1 .. Len(subscriptions) |-> subscriptions[k].stream]),
     token |-> LET present == SelectSeq(subscriptions, LAMBDA m : m.token.some)
               IN SubscriptionToken("vec",
                      [k \in 1 .. Len(present) |-> present[k].token])]

\* A batch that keeps only the stream of its first member.
batch_first_member(subscriptions) ==
    [stream |-> SelectAll(IF subscriptions = << >> THEN << >>
                          ELSE << subscriptions[1].stream >>),
     token |-> IF \E k \in 1 .. Len(subscriptions) : ~subscriptions[k].token.some
               THEN NoToken
               ELSE SubscriptionToken("vec",
                        [k \in 1 .. Len(subscriptions) |-> subscriptions[k].token])]

\* Subscription::batch(subscriptions): the streams go into one SelectAll; the
\* token is the Vec of the members' tokens, or None when one is missing.
batch(subscriptions) ==
    [stream |-> SelectAll([k \in 1 .. Len(subscriptions) |-> subscriptions[k].stream]),
     token |-> IF \E k \in 1 .. Len(subscriptions) : ~subscriptions[k].token.some
               THEN NoToken
               ELSE SubscriptionToken("vec",
                        [k \in 1 .. Len(subscriptions) |-> subscriptions[k].token])]

\* Subscription::with_token_option(token).
with_token_option(s, token) == [s EXCEPT !.token = token]

\* A map that does not carry the token over.
map_untokened(s, f) == from_stream(MapStream(s.stream, f))

\* Subscription::map(f): the mapped stream with the clone of the token.
map(s, f) == with_token_option(from_stream(MapStream(s.stream, f)), clone(s.token))

\* Subscription::with_token(token).
with_token(s, type, value) == [s EXCEPT !.token = SubscriptionToken(type, value)]

\* IntoSubscription::identity.
identity(s) == clone(s.token)

\* IntoSubscription::into_stream.
into_stream(s) == s.stream

\* Stream::poll_next: the outcomes that are Ready, each with the stream
\* afterwards; none when the stream is Pending.  The Delay of an interval
\* elapses sooner or later, so its item is among the outcomes.  A member of
\* a SelectAll that has ended is removed and the others are polled.
RemoveAt(seq, k) == SubSeq(seq, 1, k - 1) \o SubSeq(seq, k + 1, Len(seq))

RECURSIVE poll_next(_)
poll_next(s) ==
    CASE s.kind = "pending" -> {}
      [] s.kind = "iter" ->
            IF s.items = << >>
            THEN {[item |-> None, stream |-> s]}
            ELSE {[item |-> Some(Head(s.items)),
                   stream |-> [s EXCEPT !.items = Tail(@)]]}
      [] s.kind = "interval" ->
            {[item |-> Some(call(s.factory).message),
              stream |-> [s EXCEPT !.factory = call(s.factory).factory]]}
      [] s.kind = "map" ->
            {[item |-> IF r.item.some THEN Some(apply(s.f, r.item.msg)) ELSE None,
              stream |-> [s EXCEPT !.inner = r.stream]] : r \in poll_next(s.inner)}
      [] s.kind = "select_all" ->
            IF s.members = << >>
            THEN {[item |-> None, stream |-> s]}
            ELSE UNION {
                   UNION { IF r.item.some
                           THEN {[item |-> r.item,
                                  stream |-> [s EXCEPT !.members[k] = r.stream]]}
                           ELSE poll_next([s EXCEPT !.members = RemoveAt(@, k)])
                           : r \in poll_next(s.members[k]) }
                   : k \in 1 .. Len(s.members) }
      [] OTHER -> {}

\* ---------------------------------------------------------------- Command

\* Command::none().
CommandNone == << >>
\* Command::from_optional_future(future), the future resolving to r.
from_optional_future(r) == << r >>
\* Command::message(m).
CommandMessage(m) == from_optional_future(Some(m))
\* Command::async_(future), the future resolving to m.
async_(m) == from_optional_future(Some(m))

RECURSIVE Flatten(_)
Flatten(cs) == IF cs = << >> THEN << >> ELSE Head(cs) \o Flatten(Tail(cs))

\* A batch that keeps only the tasks of the last command.
CommandBatchLast(cs) == IF cs = << >> THEN << >> ELSE cs[Len(cs)]

\* Command::batch(commands): flat_map over the commands' tasks.
CommandBatch(cs) == Flatten(cs)

\* Command::into_futures.
into_futures(command) == command


\* ---------------------------------------------------------------- programs

\* The programs run: two of the examples, an abstract program whose update
\* may return any model and any command of small sets, and a program whose
\* subscription is a batch of two intervals.
Programs == {"counter", "async_loader", "abstract", "batching"}

Increment == Msg("Increment", 0)
Decrement == Msg("Decrement", 0)
ToggleAuto(on) == Msg("ToggleAuto", IF on THEN 1 ELSE 0)
Tick == Msg("Tick", 0)
Load == Msg("Load", 0)
DataLoaded(payload) == Msg("DataLoaded", payload)
Click == Msg("Click", 0)
Done == Msg("Done", 0)

\* examples/counter.rs
counter_init == [model |-> [count |-> 0, auto |-> FALSE], command |-> CommandNone]

counter_update(m, message) ==
    [model |->
        CASE message.tag = "Increment" -> [m EXCEPT !.count = @ + 1]
          [] message.tag = "Decrement" -> [m EXCEPT !.count = @ - 1]
          [] message.tag = "ToggleAuto" -> [m EXCEPT !.auto = (message.arg = 1)]
          [] message.tag = "Tick" ->
                IF m.auto THEN [m EXCEPT !.count = @ + 1] ELSE m
          [] OTHER -> m,
     command |-> CommandNone]

\* The messages the widgets of view send when clicked.
counter_view(m) == {Increment, Decrement, ToggleAuto(~m.auto)}

\* A counter whose subscription does not depend on auto.
counter_subscription_fixed(m) == SubscriptionNone

counter_subscription(m) ==
    IF m.auto THEN interval(Tick) ELSE SubscriptionNone

\* examples/async_loader.rs; the payload of DataLoaded is the request id, and
\* data is 0 for None.
async_loader_init ==
    [model |-> [data |-> 0, loading |-> FALSE, request_count |-> 0],
     command |-> CommandNone]

async_loader_update(m, message) ==
    CASE message.tag = "Load" ->
            IF m.loading
            THEN [model |-> m, command |-> CommandNone]
            ELSE [model |-> [m EXCEPT !.loading = TRUE],
                  command |-> async_(DataLoaded(m.request_count + 1))]
      [] message.tag = "DataLoaded" ->
            [model |-> [m EXCEPT !.loading = FALSE,
                                 !.request_count = @ + 1,
                                 !.data = message.arg],
             command |-> CommandNone]
      [] OTHER -> [model |-> m, command |-> CommandNone]

\* The button is enabled while nothing is loading.
async_loader_view(m) == IF m.loading THEN {} ELSE {Load}

async_loader_subscription(m) == SubscriptionNone

\* The abstract program: Program.init, Program.update, Program.view and
\* Program.subscription are function pointers the application supplies.  Its
\* model only selects the subscription it derives.
AbstractModels == [sub : 0 .. 3]

AbstractCommands ==
    { CommandNone,
      CommandMessage(Done),
      from_optional_future(None),
      CommandBatch(<< CommandMessage(Done), CommandMessage(Done) >>) }

\* The commands the abstract program may return now: while the history is
\* recorded, at most MaxCmds tasks in all.
AbstractChoices ==
    { c \in AbstractCommands : logging => scheduled + Len(c) <= MaxCmds }

abstract_subscription(m) ==
    CASE m.sub = 0 -> SubscriptionNone
      [] m.sub = 1 -> interval(Tick)
      [] m.sub = 2 -> with_token(interval(Tick), "int", 1)
      [] OTHER -> with_token(interval(Tick), "int", 2)

\* The batching program: its model selects the batch it derives (none, or
\* two tagged intervals, the second with one of two tags); update may move
\* to any model and returns no command; view has one button.
BatchingModels == [gen : 0 .. 2]

batching_subscription(m) ==
    IF m.gen = 0
    THEN SubscriptionNone
    ELSE batch(<< with_token(interval(Tick), "int", 1),
                  with_token(interval(Done), "int", m.gen) >>)

\* The feedback program: it takes no user input (view sends nothing), update
\* returns no command, and the stream of its subscription, which carries no
\* token, is ready as soon as it is started: futures::stream::iter over
\* model.burst messages.
FeedbackModels == [burst : 1 .. MaxItems]

\* A feedback program that tags its subscription.
feedback_subscription_tagged(m) ==
    with_token(from_stream(iter([k \in 1 .. m.burst |-> Tick])), "unit", 0)

feedback_subscription(m) == from_stream(iter([k \in 1 .. m.burst |-> Tick]))

\* (program.init)(ctx): the possible results.
init(p) ==
    CASE p = "counter" -> {counter_init}
      [] p = "async_loader" -> {async_loader_init}
      [] p = "batching" -> [model : BatchingModels, command : {CommandNone}]
      [] p = "feedback" -> [model : FeedbackModels, command : {CommandNone}]
      [] OTHER -> [model : AbstractModels, command : AbstractChoices]

\* (program.update)(&mut model, message): the possible results.
update(p, m, message) ==
    CASE p = "counter" -> {counter_update(m, message)}
      [] p = "async_loader" -> {async_loader_update(m, message)}
      [] p = "batching" -> [model : BatchingModels, command : {CommandNone}]
      [] p = "feedback" -> {[model |-> m, command |-> CommandNone]}
      [] OTHER -> [model : AbstractModels, command : AbstractChoices]

\* The messages (program.view) may send, and how many in one call.
view(p, m) ==
    CASE p = "counter" -> counter_view(m)
      [] p = "async_loader" -> async_loader_view(m)
      [] p = "feedback" -> {}
      [] OTHER -> {Click}

ViewSendLimit(p) == IF p = "abstract" THEN MaxViewSends ELSE 1

\* (program.subscription)(&model).
subscription(p, m) ==
    CASE p = "counter" -> counter_subscription(m)
      [] p = "async_loader" -> async_loader_subscription(m)
      [] p = "batching" -> batching_subscription(m)
      [] p = "feedback" -> feedback_subscription(m)
      [] OTHER -> abstract_subscription(m)

\* ----------------------------------------------------------------- history

\* The history variables change only while logging holds.
Log(seq, e) == IF logging THEN Append(seq, e) ELSE seq
Add(n, k) == IF logging THEN n + k ELSE n

\* A mailbox entry: the message, who sent it ("view", "sub", or "cmd" with the
\* number of the command task) and its place in the order of insertion.
Entry(m, src, id) ==
    [msg |-> m, src |-> src, id |-> IF logging THEN id ELSE 0,
     n |-> IF logging THEN Len(enqueued) + 1 ELSE 0]

\* ------------------------------------------------ tokio::sync::mpsc channel

\* A task suspended in Sender::send.
CmdRef(i) == [k |-> "cmd", i |-> i]
SubRef(i) == [k |-> "sub", i |-> i]

Chan == [mailbox |-> mailbox, permits |-> permits, waiters |-> waiters,
         granted |-> granted]

SetChan(c) ==
    /\ mailbox' = c.mailbox
    /\ permits' = c.permits
    /\ waiters' = c.waiters
    /\ granted' = c.granted

\* mpsc::channel(capacity).
channel(capacity) ==
    [mailbox |-> << >>, permits |-> capacity, waiters |-> << >>, granted |-> {}]

\* A semaphore that never hands a freed permit to a waiter.
add_permit_unqueued(c) == [c EXCEPT !.permits = @ + 1]

\* Semaphore::add_permits(1): the permit goes to the first waiter, if any.
add_permit(c) ==
    IF c.waiters # << >>
    THEN [c EXCEPT !.waiters = Tail(@), !.granted = @ \cup {Head(c.waiters)}]
    ELSE [c EXCEPT !.permits = @ + 1]

\* send that does not join the wait queue when no permit is free.
send_poll_unqueued(c, ref, e) ==
    IF c.permits > 0
    THEN [c EXCEPT !.permits = @ - 1, !.mailbox = Append(@, e)]
    ELSE c

\* Sender::send(message).await, first poll, the receiver alive: take a permit
\* and push, or queue behind the other waiters.
send_poll(c, ref, e) ==
    IF c.permits > 0
    THEN [c EXCEPT !.permits = @ - 1, !.mailbox = Append(@, e)]
    ELSE [c EXCEPT !.waiters = Append(@, ref)]

\* Sender::send(message).await, polled again holding the permit it was handed.
send_resume(c, ref, e) ==
    [c EXCEPT !.granted = @ \ {ref}, !.mailbox = Append(@, e)]

\* try_send deciding by the number of messages in the mailbox.
try_send_by_length(c, e) ==
    IF Len(c.mailbox) < MAILBOX_CAPACITY
    THEN [c EXCEPT !.permits = IF @ > 0 THEN @ - 1 ELSE 0,
                   !.mailbox = Append(@, e)]
    ELSE c

\* Sender::try_send(message): Err(Full) without a free permit.
try_send(c, e) ==
    IF c.permits > 0
    THEN [c EXCEPT !.permits = @ - 1, !.mailbox = Append(@, e)]
    ELSE c

\* try_recv popping the newest message instead of the oldest.
try_recv_newest(c) ==
    [message |-> c.mailbox[Len(c.mailbox)],
     chan |-> add_permit([c EXCEPT !.mailbox = SubSeq(@, 1, Len(@) - 1)])]

\* Receiver::try_recv on a non-empty channel: pop the oldest message and give
\* its permit back.
try_recv(c) ==
    [message |-> Head(c.mailbox),
     chan |-> add_permit([c EXCEPT !.mailbox = Tail(@)])]

RemoveAll(seq, x) == SelectSeq(seq, LAMBDA y : y # x)

\* Dropping a suspended send future: leave the wait queue, give back a permit
\* already handed over.
drop_send(c, ref) ==
    IF ref \in c.granted
    THEN add_permit([c EXCEPT !.granted = @ \ {ref}])
    ELSE [c EXCEPT !.waiters = RemoveAll(@, ref)]

\* -------------------------------------------------------------------- tasks

FreeCmd == [st |-> "free", result |-> None, gid |-> 0]
FreeSub == [st |-> "free", stream |-> pending, msg |-> Msg("", 0), aborted |-> FALSE]

FreeSlots(tbl) == {i \in DOMAIN tbl : tbl[i].st = "free"}
Min(S) == CHOOSE x \in S : \A y \in S : x <= y

\* ElmApp::enqueue_command: one task per future of the command, in order; g
\* is the number of tasks scheduled before.
RECURSIVE enqueue_command(_, _, _)
enqueue_command(tbl, command, g) ==
    IF into_futures(command) = << >>
    THEN tbl
    ELSE LET i == Min(FreeSlots(tbl))
         IN enqueue_command(
                [tbl EXCEPT ![i] = [st |-> "running",
                                    result |-> Head(into_futures(command)),
                                    gid |-> IF logging THEN g + 1 ELSE 0]],
                Tail(into_futures(command)), g + 1)

\* ElmApp::spawn_stream: the task starts suspended in stream.next().
spawn_stream(sub) ==
    [st |-> "pending", stream |-> into_stream(sub), msg |-> Msg("", 0),
     aborted |-> FALSE]

\* The clock at rest.
NoTimers(on) == [on |-> on, since |-> 0, delay |-> [i \in 1 .. SubSlots |-> 0]]

\* A timer that has elapsed when it is made, as one that ticks at once does.
start_delay_elapsed(t, i) == [t EXCEPT !.delay[i] = Duration]

\* Delay::new(duration) in the stream of task i: the timer starts at zero.
start_delay(t, i) == [t EXCEPT !.delay[i] = 0]

\* The Delay of a task that is dropped goes with it.
drop_delay(t, handle) == IF handle = 0 THEN t ELSE [t EXCEPT !.delay[handle] = 0]

\* An abort that stops only the first member of a SelectAll.
abort_first_member(tbl, handle) ==
    IF handle = 0 THEN tbl
    ELSE IF tbl[handle].stream.kind = "select_all" /\ Len(tbl[handle].stream.members) > 1
         THEN [tbl EXCEPT ![handle].stream.members = Tail(@)]
         ELSE IF tbl[handle].st = "ready"
              THEN [tbl EXCEPT ![handle].aborted = TRUE]
              ELSE [tbl EXCEPT ![handle] = FreeSub]

\* An abort that only marks the task, also one that is suspended.
abort_deferred(tbl, handle) ==
    IF handle = 0 THEN tbl ELSE [tbl EXCEPT ![handle].aborted = TRUE]

\* An abort that does nothing.
abort_ignored(tbl, handle) == tbl

\* JoinHandle::abort on Option<JoinHandle>::take().  A task suspended in
\* stream.next() or in send is dropped by the runtime without being polled
\* again; a task that a worker is polling (it holds a message to send) runs on
\* to its next suspension point.
abort(tbl, handle) ==
    IF handle = 0 THEN tbl
    ELSE IF tbl[handle].st = "ready"
         THEN [tbl EXCEPT ![handle].aborted = TRUE]
         ELSE [tbl EXCEPT ![handle] = FreeSub]

\* What abort leaves of the channel: the send future of a task dropped while
\* suspended in send leaves the wait queue and gives back its permit.
abort_chan(c, tbl, handle) ==
    IF handle # 0 /\ tbl[handle].st = "blocked"
    THEN drop_send(c, SubRef(handle))
    ELSE c

\* restart_subscription comparing only the types of the two tokens.
restart_subscription_by_type(m, c) ==
    LET sub == subscription(program, m)
        id == identity(sub)
    IN  IF /\ subscription_token.some
           /\ id.some
           /\ subscription_token.type = id.type
        THEN [restart |-> FALSE, subs |-> subs, chan |-> c,
              task |-> subscription_task, token |-> subscription_token]
        ELSE LET slot == Min(FreeSlots(subs))
             IN [restart |-> TRUE,
                 subs |-> [abort(subs, subscription_task)
                               EXCEPT ![slot] = spawn_stream(sub)],
                 chan |-> abort_chan(c, subs, subscription_task),
                 task |-> slot,
                 token |-> id]

\* restart_subscription that spawns the new task without aborting the old.
restart_subscription_no_abort(m, c) ==
    LET sub == subscription(program, m)
        id == identity(sub)
    IN  IF /\ subscription_token.some
           /\ id.some
           /\ TokenEquals(subscription_token, id)
        THEN [restart |-> FALSE, subs |-> subs, chan |-> c,
              task |-> subscription_task, token |-> subscription_token]
        ELSE LET slot == Min(FreeSlots(subs))
             IN [restart |-> TRUE,
                 subs |-> [subs EXCEPT ![slot] = spawn_stream(sub)],
                 chan |-> c,
                 task |-> slot,
                 token |-> id]

\* restart_subscription taking two absent tokens for equal.
restart_subscription_absent_equal(m, c) ==
    LET sub == subscription(program, m)
        id == identity(sub)
    IN  IF /\ subscription_task # 0
           /\ subscription_token.some = id.some
           /\ subscription_token.some => TokenEquals(subscription_token, id)
        THEN [restart |-> FALSE, subs |-> subs, chan |-> c,
              task |-> subscription_task, token |-> subscription_token]
        ELSE LET slot == Min(FreeSlots(subs))
             IN [restart |-> TRUE,
                 subs |-> [abort(subs, subscription_task)
                               EXCEPT ![slot] = spawn_stream(sub)],
                 chan |-> abort_chan(c, subs, subscription_task),
                 task |-> slot,
                 token |-> id]

\* ElmApp::restart_subscription with the model m and the channel c: whether
\* the task was replaced, and the task table, handle, token and channel
\* afterwards.
restart_subscription(m, c) ==
    LET sub == subscription(program, m)
        id == identity(sub)
    IN  IF /\ subscription_token.some
           /\ id.some
           /\ TokenEquals(subscription_token, id)
        THEN [restart |-> FALSE, subs |-> subs, chan |-> c,
              task |-> subscription_task, token |-> subscription_token]
        ELSE LET slot == Min(FreeSlots(subs))
             IN [restart |-> TRUE,
                 subs |-> [abort(subs, subscription_task)
                               EXCEPT ![slot] = spawn_stream(sub)],
                 chan |-> abort_chan(c, subs, subscription_task),
                 task |-> slot,
                 token |-> id]

\* The runtime has room for the tasks a step spawns (the slots bound the
\* tasks that exist at once).
CommandFits(command) ==
    Len(into_futures(command)) <= Cardinality(FreeSlots(commands))
RestartFits(m) ==
    LET id == identity(subscription(program, m))
    IN \/ subscription_token.some /\ id.some /\ TokenEquals(subscription_token, id)
       \/ FreeSlots(subs) # {}

\* enqueue_command(command); restart_subscription(): the end of both
\* ElmApp::new and ElmApp::handle_message, with the model m and the channel c.
ScheduleAndRestart(m, command, c) ==
    LET rs == restart_subscription(m, c)
    IN  /\ CommandFits(command)
        /\ RestartFits(m)
        /\ model' = m
        /\ SetChan(rs.chan)
        /\ commands' = enqueue_command(commands, command, scheduled)
        /\ scheduled' = Add(scheduled, Len(into_futures(command)))
        /\ subs' = rs.subs
        /\ subscription_task' = rs.task
        /\ subscription_token' = rs.token
        /\ derived' = Add(derived, 1)
        /\ tick' = [tick EXCEPT !.drained = (pc = "drain"),
                                 !.restarted = @ \/ (rs.restart /\ pc = "drain")]
        /\ timers' = IF ~timers.on THEN timers
                      ELSE IF rs.restart
                           THEN start_delay(
                                    drop_delay([timers EXCEPT !.since = 0],
                                               subscription_task),
                                    rs.task)
                           ELSE [timers EXCEPT !.since = 0]

\* ElmApp::handle_message(message), the channel being c.
handle_message(message, c) ==
    \E r \in update(program, model, message) :
        ScheduleAndRestart(r.model, r.command, c)

\* ------------------------------------------------------------------- driver

Uninit == << >>

\* The driver is built and not dropped.
Alive == pc \in {"idle", "drain", "view"}

\* What a redraw tick has done so far: drained a message, replaced the
\* subscription task, called view (how often).
NewTick == [drained |-> FALSE, restarted |-> FALSE, views |-> 0]

InitOf(log, timed) ==
    /\ pc = "start"
    /\ model = Uninit
    /\ runtime = "none"
    /\ mailbox = << >>
    /\ permits = 0
    /\ waiters = << >>
    /\ granted = {}
    /\ closed = FALSE
    /\ commands = [i \in 1 .. CmdSlots |-> FreeCmd]
    /\ subs = [i \in 1 .. SubSlots |-> FreeSub]
    /\ subscription_task = 0
    /\ subscription_token = NoToken
    /\ sends = 0
    /\ view_context = FALSE
    /\ logging = log
    /\ enqueued = << >>
    /\ applied = << >>
    /\ scheduled = 0
    /\ derived = 0
    /\ originated = 0
    /\ tick = NewTick
    /\ test = "none"
    /\ args = << >>
    /\ ret = << >>
    /\ values = << >>
    /\ tpc = "off"
    /\ timers = NoTimers(timed)

InitWith(log) == InitOf(log, FALSE) /\ program \in Programs

Init == InitWith(TRUE)

\* TokioRuntime::try_current_or_new: the ambient runtime's handle, or a new
\* runtime, or the error of Runtime::new.
try_current_or_new(ambient, created) ==
    IF ambient THEN "Handle" ELSE IF created THEN "Owned" ELSE "Err"

\* A creator closure that calls init before it acquires the runtime.
RunNativeInitFirst(ambient, created) ==
    /\ pc = "start"
    /\ LET rt == try_current_or_new(ambient, created)
       IN IF rt = "Err"
          THEN /\ pc' = "failed"
               /\ \E r \in init(program) : model' = r.model
               /\ UNCHANGED << runtime, chan, commands, subs,
                               subscription_task, subscription_token, hist,
                               tick, timers >>
          ELSE /\ pc' = "idle"
               /\ runtime' = rt
               /\ UNCHANGED << enqueued, applied, originated >>
               /\ \E r \in init(program) :
                      ScheduleAndRestart(r.model, r.command, channel(MAILBOX_CAPACITY))
    /\ UNCHANGED << program, closed, sends, view_context, logging >>
    /\ UNCHANGED uvars

\* The creator closure of run_with_native_options: acquire the runtime, call
\* init, build the ElmApp (ElmApp::new: the channel, enqueue_command,
\* restart_subscription).
RunNative(ambient, created) ==
    /\ pc = "start"
    /\ LET rt == try_current_or_new(ambient, created)
       IN IF rt = "Err"
          THEN /\ pc' = "failed"
               /\ UNCHANGED << model, runtime, chan, commands, subs,
                               subscription_task, subscription_token, hist,
                               tick, timers >>
          ELSE /\ pc' = "idle"
               /\ runtime' = rt
               /\ UNCHANGED << enqueued, applied, originated >>
               /\ \E r \in init(program) :
                      ScheduleAndRestart(r.model, r.command, channel(MAILBOX_CAPACITY))
    /\ UNCHANGED << program, closed, sends, view_context, logging >>
    /\ UNCHANGED uvars

\* eframe calls App::update: a redraw tick begins.
RedrawTick ==
    /\ pc = "idle"
    /\ pc' = "drain"
    /\ tick' = NewTick
    /\ UNCHANGED << program, model, runtime, chan, closed, commands, subs,
                    subscription_task, subscription_token, sends,
                    view_context, logging, hist >>
    /\ UNCHANGED << timers, uvars >>

\* App::update, one turn of the drain loop: try_recv returns Ok(message) and
\* handle_message applies it.
DrainMessage ==
    /\ pc = "drain"
    /\ mailbox # << >>
    /\ LET r == try_recv(Chan)
       IN /\ applied' = Log(applied, r.message)
          /\ handle_message(r.message.msg, r.chan)
    /\ UNCHANGED << pc, program, runtime, closed, sends, view_context,
                    logging, enqueued, originated >>
    /\ UNCHANGED uvars

\* An App::update that derives the subscription again when the drain ends,
\* once per redraw tick.
DrainEmptyDeriving ==
    /\ pc = "drain"
    /\ mailbox = << >>
    /\ RestartFits(model)
    /\ pc' = "view"
    /\ sends' = 0
    /\ view_context' = TRUE
    /\ LET rs == restart_subscription(model, Chan)
       IN /\ SetChan(rs.chan)
          /\ subs' = rs.subs
          /\ subscription_task' = rs.task
          /\ subscription_token' = rs.token
          /\ derived' = Add(derived, 1)
          /\ tick' = [tick EXCEPT !.views = @ + 1,
                                   !.restarted = @ \/ rs.restart]
    /\ UNCHANGED << program, model, runtime, closed, commands, logging,
                    enqueued, applied, scheduled, originated >>
    /\ UNCHANGED << timers, uvars >>

\* App::update: try_recv returns Err(Empty), the loop ends, the ViewContext
\* is made and view is called.
DrainEmpty ==
    /\ pc = "drain"
    /\ mailbox = << >>
    /\ pc' = "view"
    /\ sends' = 0
    /\ view_context' = TRUE
    /\ tick' = [tick EXCEPT !.views = @ + 1]
    /\ UNCHANGED << program, model, runtime, chan, closed, commands, subs,
                    subscription_task, subscription_token, logging, hist >>
    /\ UNCHANGED << timers, uvars >>

\* ViewContext::send(message), called by view or through a clone of the
\* ViewContext that outlived the driver: let _ = sender.try_send(message).
ViewSend ==
    /\ \/ pc = "view"
       \/ pc = "dropped" /\ view_context
    /\ sends < ViewSendLimit(program)
    /\ logging => originated < MaxMsgs
    /\ originated' = Add(originated, 1)
    /\ sends' = sends + 1
    /\ \E m \in view(program, model) :
          LET c == IF closed THEN Chan
                   ELSE try_send(Chan, Entry(m, "view", 0))
          IN /\ SetChan(c)
             /\ enqueued' = IF c.mailbox # mailbox
                            THEN Log(enqueued, Entry(m, "view", 0))
                            ELSE enqueued
    /\ UNCHANGED << pc, program, model, runtime, closed, commands, subs,
                    subscription_task, subscription_token, view_context,
                    logging, applied, scheduled,
                    derived, tick >>
    /\ UNCHANGED << timers, uvars >>

\* An App::update that drains the mailbox again after view has returned.
ViewDoneDraining ==
    /\ pc = "view"
    /\ pc' = "drain"
    /\ sends' = 0
    /\ UNCHANGED << program, model, runtime, chan, closed, commands, subs,
                    subscription_task, subscription_token, view_context,
                    logging, hist, tick >>
    /\ UNCHANGED << timers, uvars >>

\* App::update: view returns, ctx.request_repaint(), the tick ends.
ViewDone ==
    /\ pc = "view"
    /\ pc' = "idle"
    /\ sends' = 0
    /\ UNCHANGED << program, model, runtime, chan, closed, commands, subs,
                    subscription_task, subscription_token, view_context,
                    logging, hist, tick >>
    /\ UNCHANGED << timers, uvars >>

\* Drop for ElmApp, then the fields: the subscription task is aborted; an
\* owned Runtime shuts down and drops every task; the Receiver is dropped,
\* which closes the channel and drops the messages in it.
Drop ==
    /\ pc = "idle"
    /\ pc' = "dropped"
    /\ subscription_task' = 0
    /\ IF runtime = "Owned"
       THEN /\ commands' = [i \in DOMAIN commands |-> FreeCmd]
            /\ subs' = [i \in DOMAIN subs |-> FreeSub]
       ELSE /\ commands' = commands
            /\ subs' = abort(subs, subscription_task)
    /\ closed' = TRUE
    /\ mailbox' = << >>
    /\ permits' = 0
    /\ waiters' = << >>
    /\ granted' = {}
    /\ UNCHANGED << program, model, runtime, subscription_token, sends,
                    view_context, logging, enqueued, applied, scheduled, derived, originated, tick >>
    /\ timers' = NoTimers(timers.on)
    /\ UNCHANGED uvars

\* ------------------------------------------------------------ command tasks

\* A task that sends its result without looking whether it is Some.
CommandCompleteUnwrapped(i) ==
    /\ commands[i].st = "running"
    /\ LET r == commands[i].result
           e == Entry(r.msg, "cmd", commands[i].gid)
       IN IF ~closed
          THEN LET c == send_poll(Chan, CmdRef(i), e)
               IN /\ SetChan(c)
                  /\ IF c.mailbox # mailbox
                     THEN /\ enqueued' = Log(enqueued, e)
                          /\ commands' = [commands EXCEPT ![i] = FreeCmd]
                     ELSE /\ enqueued' = enqueued
                          /\ commands' = [commands EXCEPT ![i].st = "blocked"]
          ELSE /\ commands' = [commands EXCEPT ![i] = FreeCmd]
               /\ UNCHANGED << chan, enqueued >>
    /\ UNCHANGED << pc, program, model, runtime, closed, subs,
                    subscription_task, subscription_token, sends,
                    view_context, logging, applied, scheduled, derived, originated, tick >>
    /\ UNCHANGED << timers, uvars >>

\* The task of enqueue_command: the future resolves; Some(message) is sent
\* (or the task suspends in send), None ends the task.
CommandComplete(i) ==
    /\ commands[i].st = "running"
    /\ LET r == commands[i].result
           e == Entry(r.msg, "cmd", commands[i].gid)
       IN IF r.some /\ ~closed
          THEN LET c == send_poll(Chan, CmdRef(i), e)
               IN /\ SetChan(c)
                  /\ IF c.mailbox # mailbox
                     THEN /\ enqueued' = Log(enqueued, e)
                          /\ commands' = [commands EXCEPT ![i] = FreeCmd]
                     ELSE /\ enqueued' = enqueued
                          /\ commands' = [commands EXCEPT ![i].st = "blocked"]
          ELSE /\ commands' = [commands EXCEPT ![i] = FreeCmd]
               /\ UNCHANGED << chan, enqueued >>
    /\ UNCHANGED << pc, program, model, runtime, closed, subs,
                    subscription_task, subscription_token, sends,
                    view_context, logging, applied, scheduled, derived, originated, tick >>
    /\ UNCHANGED << timers, uvars >>

\* A send that the closing of the channel does not wake.
CommandResumeUnwoken(i) ==
    /\ commands[i].st = "blocked"
    /\ CmdRef(i) \in granted
    /\ LET e == Entry(commands[i].result.msg, "cmd", commands[i].gid)
       IN IF closed
          THEN UNCHANGED << chan, enqueued >>
          ELSE /\ SetChan(send_resume(Chan, CmdRef(i), e))
               /\ enqueued' = Log(enqueued, e)
    /\ commands' = [commands EXCEPT ![i] = FreeCmd]
    /\ UNCHANGED << pc, program, model, runtime, closed, subs,
                    subscription_task, subscription_token, sends,
                    view_context, logging, applied, scheduled, derived, originated, tick >>
    /\ UNCHANGED << timers, uvars >>

\* The task of enqueue_command, woken in send: it holds a permit and pushes,
\* or the channel was closed and send returns Err, which is ignored.
CommandResume(i) ==
    /\ commands[i].st = "blocked"
    /\ closed \/ CmdRef(i) \in granted
    /\ LET e == Entry(commands[i].result.msg, "cmd", commands[i].gid)
       IN IF closed
          THEN UNCHANGED << chan, enqueued >>
          ELSE /\ SetChan(send_resume(Chan, CmdRef(i), e))
               /\ enqueued' = Log(enqueued, e)
    /\ commands' = [commands EXCEPT ![i] = FreeCmd]
    /\ UNCHANGED << pc, program, model, runtime, closed, subs,
                    subscription_task, subscription_token, sends,
                    view_context, logging, applied, scheduled, derived, originated, tick >>
    /\ UNCHANGED << timers, uvars >>

\* ------------------------------------------------------- subscription tasks

\* The task of spawn_stream is polled and stream.next() is ready: with a
\* message, which the task now holds, or with the end of the stream, which
\* ends the loop and the task.  An aborted task is not polled again.
SubPoll(i) ==
    /\ subs[i].st = "pending"
    /\ ~subs[i].aborted
    /\ (timers.on /\ subs[i].stream.kind = "interval") => timers.delay[i] = Duration
    /\ timers' = IF timers.on THEN start_delay(timers, i) ELSE timers
    /\ \E r \in poll_next(subs[i].stream) :
          IF r.item.some
          THEN /\ logging => originated < MaxMsgs
               /\ originated' = Add(originated, 1)
               /\ subs' = [subs EXCEPT ![i] = [@ EXCEPT !.st = "ready",
                                                        !.msg = r.item.msg,
                                                        !.stream = r.stream]]
          ELSE /\ originated' = originated
               /\ subs' = [subs EXCEPT ![i] = [@ EXCEPT !.st = "done",
                                                        !.stream = r.stream]]
    /\ UNCHANGED << pc, program, model, runtime, chan, closed, commands,
                    subscription_task, subscription_token, sends,
                    view_context, logging, enqueued, applied, scheduled, derived, tick >>
    /\ UNCHANGED uvars

\* The same poll goes on to sender.send(message): Err ends the loop; with a
\* permit the message is pushed and the task suspends in stream.next();
\* without one it suspends in send.  A task aborted during this poll gets
\* this far and is dropped where it suspends.
SubSend(i) ==
    /\ subs[i].st = "ready"
    /\ LET e == Entry(subs[i].msg, "sub", 0)
       IN IF closed
          THEN /\ subs' = [subs EXCEPT ![i] = FreeSub]
               /\ UNCHANGED << chan, enqueued >>
          ELSE LET c == send_poll(Chan, SubRef(i), e)
               IN IF c.mailbox # mailbox
                  THEN /\ SetChan(c)
                       /\ enqueued' = Log(enqueued, e)
                       /\ subs' = [subs EXCEPT ![i] =
                                     IF subs[i].aborted THEN FreeSub
                                     ELSE [@ EXCEPT !.st = "pending",
                                                    !.msg = Msg("", 0)]]
                  ELSE /\ enqueued' = enqueued
                       /\ IF subs[i].aborted
                          THEN /\ subs' = [subs EXCEPT ![i] = FreeSub]
                               /\ UNCHANGED chan
                          ELSE /\ subs' = [subs EXCEPT ![i].st = "blocked"]
                               /\ SetChan(c)
    /\ UNCHANGED << pc, program, model, runtime, closed, commands,
                    subscription_task, subscription_token, sends,
                    view_context, logging, applied, scheduled, derived, originated, tick >>
    /\ UNCHANGED << timers, uvars >>

\* The task, woken in send with the permit it was handed: it pushes and
\* suspends in stream.next().
SubResume(i) ==
    /\ subs[i].st = "blocked"
    /\ SubRef(i) \in granted
    /\ SetChan(send_resume(Chan, SubRef(i), Entry(subs[i].msg, "sub", 0)))
    /\ enqueued' = Log(enqueued, Entry(subs[i].msg, "sub", 0))
    /\ subs' = [subs EXCEPT ![i] = [@ EXCEPT !.st = "pending",
                                             !.msg = Msg("", 0)]]
    /\ UNCHANGED << pc, program, model, runtime, closed, commands,
                    subscription_task, subscription_token, sends,
                    view_context, logging, applied, scheduled, derived, originated, tick >>
    /\ UNCHANGED << timers, uvars >>

Next ==
    \/ \E ambient \in BOOLEAN, created \in BOOLEAN : RunNative(ambient, created)
    \/ RedrawTick
    \/ DrainMessage
    \/ DrainEmpty
    \/ ViewSend
    \/ ViewDone
    \/ Drop
    \/ \E i \in 1 .. CmdSlots : CommandComplete(i)
    \/ \E i \in 1 .. CmdSlots : CommandResume(i)
    \/ \E i \in 1 .. SubSlots : SubPoll(i)
    \/ \E i \in 1 .. SubSlots : SubSend(i)
    \/ \E i \in 1 .. SubSlots : SubResume(i)

Spec == Init /\ [][Next]_vars

\* The scheduling the code relies on: request_repaint keeps the redraw ticks
\* coming, the driver thread runs on, and the runtime polls every task that is
\* ready.  Nothing obliges the user to click, a stream to emit or the
\* application to exit.
Fairness ==
    /\ WF_vars(RedrawTick)
    /\ WF_vars(DrainMessage)
    /\ WF_vars(DrainEmpty)
    /\ WF_vars(ViewDone)
    /\ \A i \in 1 .. CmdSlots : WF_vars(CommandComplete(i))
    /\ \A i \in 1 .. CmdSlots : WF_vars(CommandResume(i))
    /\ \A i \in 1 .. SubSlots : WF_vars(SubSend(i))
    /\ \A i \in 1 .. SubSlots : WF_vars(SubResume(i))

\* The runs of Spec under that scheduling.
FairSpec == Spec /\ Fairness

\* The abstract program run without a history and so without a bound on the
\* messages produced, under the same scheduling.
LiveInit == InitWith(FALSE) /\ program = "abstract"
LiveSpec == LiveInit /\ [][Next]_vars /\ Fairness

\* The feedback program run without a history.  It schedules no command and
\* its view sends nothing, so the steps are those of the driver and of the
\* subscription task, which the runtime polls whenever it is ready.
LoopInit == InitOf(FALSE, FALSE) /\ program = "feedback"
LoopNext ==
    \/ \E ambient \in BOOLEAN, created \in BOOLEAN : RunNative(ambient, created)
    \/ RedrawTick
    \/ DrainMessage
    \/ DrainEmpty
    \/ ViewDone
    \/ Drop
    \/ \E i \in 1 .. SubSlots : SubPoll(i)
    \/ \E i \in 1 .. SubSlots : SubSend(i)
LoopFairness ==
    /\ Fairness
    /\ \A i \in 1 .. SubSlots : WF_vars(SubPoll(i))
LoopSpec == LoopInit /\ [][LoopNext]_vars /\ LoopFairness

\* Time passes while the driver runs: the time since the last call of
\* update grows, and so does the Delay of every task suspended in the stream
\* of an interval, up to the duration, where the Delay has elapsed.
Elapse ==
    /\ timers.on
    /\ Alive
    /\ timers' =
          [timers EXCEPT
             !.since = IF @ < Duration THEN @ + 1 ELSE @,
             !.delay = [i \in 1 .. SubSlots |->
                          IF /\ subs[i].st = "pending"
                             /\ subs[i].stream.kind = "interval"
                             /\ timers.delay[i] < Duration
                          THEN timers.delay[i] + 1
                          ELSE timers.delay[i]]]
    /\ timers' # timers
    /\ UNCHANGED << pc, program, model, runtime, chan, closed, commands, subs,
                    subscription_task, subscription_token, sends,
                    view_context, logging, hist, tick >>
    /\ UNCHANGED uvars

\* The runs with time: the abstract program and the counter, whose
\* subscriptions are single intervals; an interval emits only when its Delay
\* has elapsed.
TimedInit == InitOf(TRUE, TRUE) /\ program \in {"abstract", "counter"}
TimedNext == Next \/ Elapse
TimedSpec == TimedInit /\ [][TimedNext]_vars

\* ------------------------------------------------- the library on its own

\* The pure parts of the crate, called as its unit tests call them: the
\* arguments are drawn from small sets, one step makes the call, and a
\* returned stream is polled to its end as `while let Some(value) =
\* stream.next().await { values.push(value) }` does.
SeqsUpTo(S, n) == UNION {[1 .. k -> S] : k \in 0 .. n}

Value(v) == Msg("Value", v)

\* Tokens of three underlying types, two of them holding the same value, and
\* tokens of Vec<SubscriptionToken>.
PlainTokens ==
    { SubscriptionToken("unit", 0), SubscriptionToken("int", 1),
      SubscriptionToken("int", 2), SubscriptionToken("str", 1) }
Tokens ==
    PlainTokens \cup
    { SubscriptionToken("vec", ts) :
        ts \in SeqsUpTo({SubscriptionToken("int", 1), SubscriptionToken("int", 2)}, 2) }

\* The subscriptions batched: with and without a token.
MemberSubscriptions ==
    { SubscriptionNone, interval(Tick),
      with_token(interval(Tick), "int", 1), with_token(interval(Tick), "int", 2) }

\* The commands batched: of no, one and two tasks.
BatchedCommands ==
    { CommandNone, CommandMessage(Value(1)), from_optional_future(None),
      << Some(Value(2)), Some(Value(3)) >> }

\* The items of member k of a merged stream: k1, k2, ...
MemberItems(k, n) == [j \in 1 .. n |-> Value(10 * k + j)]

DriverOff ==
    /\ pc = "off"
    /\ program = "none"
    /\ model = Uninit
    /\ runtime = "none"
    /\ mailbox = << >>
    /\ permits = 0
    /\ waiters = << >>
    /\ granted = {}
    /\ closed = FALSE
    /\ commands = [i \in 1 .. CmdSlots |-> FreeCmd]
    /\ subs = [i \in 1 .. SubSlots |-> FreeSub]
    /\ subscription_task = 0
    /\ subscription_token = NoToken
    /\ sends = 0
    /\ view_context = FALSE
    /\ logging = FALSE
    /\ enqueued = << >>
    /\ applied = << >>
    /\ scheduled = 0
    /\ derived = 0
    /\ originated = 0
    /\ tick = NewTick
    /\ timers = NoTimers(FALSE)

UnitInit ==
    /\ DriverOff
    /\ ret = << >>
    /\ values = << >>
    /\ tpc = "call"
    /\ \/ test = "token_eq" /\ args \in Tokens \X Tokens
       \/ /\ test = "batch_identity"
          /\ args \in SeqsUpTo(MemberSubscriptions, MaxMembers)
                        \X SeqsUpTo(MemberSubscriptions, MaxMembers)
       \/ test = "command_batch" /\ args \in SeqsUpTo(BatchedCommands, MaxBatch)
       \/ /\ test = "map"
          /\ args \in [f : {"double", "succ"},
                       items : SeqsUpTo({Value(1), Value(2)}, MaxItems),
                       token : {NoToken, SubscriptionToken("int", 1)}]
       \/ /\ test = "batch_stream"
          /\ args \in SeqsUpTo(0 .. MaxItems, MaxMembers)
       \/ /\ test = "interval"
          /\ args \in {Cloning(Value(42)), Counting(0)}

\* previous == current on two tokens, and on a clone of the first.
TokenEq ==
    /\ tpc = "call" /\ test = "token_eq"
    /\ ret' = [eq |-> TokenEquals(args[1], args[2]),
               cloned |-> TokenEquals(clone(args[1]), args[2])]
    /\ tpc' = "done"
    /\ UNCHANGED << dvars, test, args, values >>

\* Subscription::batch on two lists of subscriptions.
BatchIdentity ==
    /\ tpc = "call" /\ test = "batch_identity"
    /\ ret' = << batch(args[1]), batch(args[2]) >>
    /\ tpc' = "done"
    /\ UNCHANGED << dvars, test, args, values >>

\* tests::batch_flattens_all_commands: Command::batch, then into_futures.
batch_flattens_all_commands ==
    /\ tpc = "call" /\ test = "command_batch"
    /\ ret' = into_futures(CommandBatch(args))
    /\ tpc' = "done"
    /\ UNCHANGED << dvars, test, args, values >>

\* tests::map_transforms_messages: from_stream(iter(items)), with or without
\* a token, then map(f).
map_transforms_messages ==
    /\ tpc = "call" /\ test = "map"
    /\ ret' = map(with_token_option(from_stream(iter(args.items)), args.token),
                  args.f)
    /\ tpc' = "poll"
    /\ UNCHANGED << dvars, test, args, values >>

\* tests::batch_merges_streams: batch of from_stream(iter(..)) members.
batch_merges_streams ==
    /\ tpc = "call" /\ test = "batch_stream"
    /\ ret' = batch([k \in 1 .. Len(args) |->
                        from_stream(iter(MemberItems(k, args[k])))])
    /\ tpc' = "poll"
    /\ UNCHANGED << dvars, test, args, values >>

\* tests::interval_emits_multiple_messages and
\* tests::interval_with_produces_fresh_messages.
interval_with_produces_fresh_messages ==
    /\ tpc = "call" /\ test = "interval"
    /\ ret' = interval_with(args)
    /\ tpc' = "poll"
    /\ UNCHANGED << dvars, test, args, values >>

\* One turn of the tests' loop: stream.next().await is ready with an item,
\* which is pushed (the interval tests break at a fixed number of values), or
\* with None, which ends the loop.
StreamNext ==
    /\ tpc = "poll"
    /\ \E r \in poll_next(into_stream(ret)) :
          IF r.item.some
          THEN /\ values' = Append(values, r.item.msg)
               /\ ret' = [ret EXCEPT !.stream = r.stream]
               /\ tpc' = IF test = "interval" /\ Len(values') = MaxValues
                         THEN "stopped" ELSE "poll"
          ELSE /\ tpc' = "done"
               /\ ret' = [ret EXCEPT !.stream = r.stream]
               /\ values' = values
    /\ UNCHANGED << dvars, test, args >>

UnitNext ==
    \/ TokenEq
    \/ BatchIdentity
    \/ batch_flattens_all_commands
    \/ map_transforms_messages
    \/ batch_merges_streams
    \/ interval_with_produces_fresh_messages
    \/ StreamNext

UnitSpec == UnitInit /\ [][UnitNext]_vars

\* =================================================================== claims

IsPrefix(a, b) == Len(a) <= Len(b) /\ SubSeq(b, 1, Len(a)) = a

\* C1: the messages passed to update, in call order, are the messages that
\* were inserted into the mailbox, in insertion order, up to the ones still
\* waiting in it: no message is applied before one inserted earlier, whoever
\* the producers are.
C1_ArrivalOrder ==
    /\ \A k \in 1 .. Len(enqueued) : enqueued[k].n = k
    /\ IsPrefix(applied, enqueued)
    /\ ~closed => applied \o mailbox = enqueued

\* Two messages of different producers have been applied and a third waits.
C1_Witness ==
    /\ Len(applied) >= 2
    /\ applied[1].src # applied[2].src
    /\ mailbox # << >>

\* How often the result of command task g occurs in a sequence of entries.
Occurrences(seq, g) ==
    Cardinality({k \in 1 .. Len(seq) : seq[k].src = "cmd" /\ seq[k].id = g})

\* Command task g exists and its future resolves to Some(message).
ResolvesSome(g) ==
    \E i \in 1 .. CmdSlots :
        /\ commands[i].st # "free"
        /\ commands[i].gid = g
        /\ commands[i].result.some

\* C2: while the redraw ticks keep coming and the driver is not dropped, the
\* message of every scheduled command task that resolves to Some(message) is
\* inserted into the mailbox once and is eventually passed to update, once;
\* no result is inserted or applied twice.
C2_ResultAppliedOnce ==
    /\ [](\A g \in 1 .. MaxMsgs + MaxCmds :
            Occurrences(enqueued, g) <= 1 /\ Occurrences(applied, g) <= 1)
    /\ \A g \in 1 .. MaxMsgs + MaxCmds :
            ResolvesSome(g) ~>
                \/ Occurrences(enqueued, g) = 1 /\ Occurrences(applied, g) = 1
                \/ ~Alive

\* The result of a command task has been applied behind two messages of the
\* view that filled the mailbox.
C2_Witness ==
    /\ Alive
    /\ Len(applied) = 3
    /\ applied[1].src = "view" /\ applied[2].src = "view"
    /\ applied[3].src = "cmd" /\ Occurrences(applied, applied[3].id) = 1

\* The subscription tasks that are spawned and not aborted.
LiveTasks(tbl) == {i \in DOMAIN tbl : tbl[i].st # "free" /\ ~tbl[i].aborted}

\* The step replaces the subscription task by one spawned from sub: the old
\* task, if any, is aborted (dropped at once when suspended, marked when a
\* worker is polling it), one new task is spawned in a slot that was free,
\* and no other task changes.
Replaced(sub) ==
    /\ subscription_task' \in 1 .. SubSlots
    /\ subscription_task' # subscription_task
    /\ subs[subscription_task'].st = "free"
    /\ subs'[subscription_task'] = spawn_stream(sub)
    /\ subscription_task # 0 =>
          \/ subs'[subscription_task] = FreeSub
          \/ subs'[subscription_task] = [subs[subscription_task] EXCEPT !.aborted = TRUE]
    /\ \A i \in 1 .. SubSlots :
          i \notin {subscription_task, subscription_task'} => subs'[i] = subs[i]

\* The step leaves the subscription task and its handle alone.
Kept ==
    /\ subscription_task' = subscription_task
    /\ subs' = subs

\* C3: each time the driver derives the subscription again, with the stored
\* token P and the derived token N: if both are present and equal the running
\* task is kept, nothing is aborted or spawned and the stored token stays;
\* otherwise the old task is aborted, exactly one new task is spawned from
\* the derived subscription and the stored token becomes N.
C3_TokenDiff ==
    [][ derived' # derived =>
          LET sub == subscription(program, model')
              P == subscription_token
              N == identity(sub)
          IN IF P.some /\ N.some /\ P = N
             THEN Kept /\ subscription_token' = P
             ELSE Replaced(sub) /\ subscription_token' = N ]_vars

\* An interval tagged with a token has been derived again with an equal token
\* and kept, after an earlier derivation had replaced the first task.
C3_Witness ==
    /\ program = "abstract"
    /\ pc = "drain"
    /\ tick.drained /\ ~tick.restarted
    /\ subscription_token = SubscriptionToken("int", 1)
    /\ subscription_task = 2
    /\ subs[2].stream.kind = "interval"

\* C4: from the end of the driver's construction until it is dropped, exactly
\* one subscription task is spawned and not aborted, and it is the one the
\* driver holds the handle of.
C4_OneLiveTask ==
    Alive => LiveTasks(subs) = {subscription_task}

\* The driver has replaced a task a worker was polling: the aborted task still
\* exists beside its successor.
C4_Witness ==
    /\ Alive
    /\ Len(applied) >= 1
    /\ \E i \in 1 .. SubSlots : subs[i].aborted /\ subs[i].st = "ready"
    /\ subscription_task # 0 /\ subs[subscription_task].st = "pending"

\* C5 as stated: a subscription without a token is restarted on every redraw
\* tick, whether or not a message was drained in it; so when view is called
\* and the stored token is absent, the task has been replaced in this tick.
C5_RestartedEveryTick ==
    (pc = "view" /\ ~subscription_token.some) => tick.restarted

\* C5, amended: a subscription whose derived token is absent is restarted each
\* time a message is applied (and at construction); a step that applies no
\* message, so a redraw tick that drains nothing, aborts and spawns nothing.
C5_RestartedEveryMessage ==
    [][ /\ (derived' # derived /\ ~identity(subscription(program, model')).some)
            => Replaced(subscription(program, model'))
        /\ (derived' = derived /\ pc' # "dropped")
            => /\ subscription_task' = subscription_task
               /\ \A i \in 1 .. SubSlots : subs[i].st = "free" => subs'[i].st = "free"
               /\ \A i \in 1 .. SubSlots : subs'[i].aborted => subs[i].aborted ]_vars

\* A message was applied while the stored and the derived token were absent,
\* and the task was replaced.
C5_Witness ==
    /\ pc = "drain"
    /\ tick.drained /\ tick.restarted
    /\ ~subscription_token.some
    /\ derived >= 3
    /\ subs[subscription_task].stream.kind = "interval"

\* C6: the subscription of async_loader is Subscription::none() for every
\* model; after the start at construction no step of the running driver aborts
\* the subscription task or spawns another, whatever messages are applied.
C6_NoneNeverRestarts ==
    [][ (program = "async_loader" /\ Alive /\ pc' # "dropped") =>
            Kept /\ subscription_token' = subscription_token ]_vars

\* async_loader has applied Load and the DataLoaded of its command.
C6_Witness ==
    /\ program = "async_loader"
    /\ Alive
    /\ Len(applied) >= 2
    /\ applied[1].msg = Load
    /\ applied[2].msg.tag = "DataLoaded"
    /\ subscription_task = 1

\* C7 as stated: applying ToggleAuto(true) to the counter cancels nothing and
\* starts the interval task.
C7_ToggleOnCancelsNothing ==
    [][ (program = "counter" /\ pc = "drain" /\ model'.auto /\ ~model.auto) =>
            /\ subs'[subscription_task] = subs[subscription_task]
            /\ subs'[subscription_task'].stream.kind = "interval" ]_vars

\* C7, amended: applying ToggleAuto(true) aborts the task of none(), which
\* never emitted, and starts the interval task; applying ToggleAuto(false)
\* aborts the interval task and starts a task of the never-emitting stream.
C7_ToggleReplacesTask ==
    [][ (program = "counter" /\ pc = "drain" /\ model'.auto # model.auto) =>
            /\ subs[subscription_task].stream.kind = IF model.auto THEN "interval" ELSE "pending"
            /\ Replaced(counter_subscription(model'))
            /\ subs'[subscription_task'].stream.kind = IF model'.auto THEN "interval" ELSE "pending"
            /\ subscription_token' = IF model'.auto THEN NoToken ELSE SubscriptionToken("unit", 0) ]_vars

\* The counter has applied ToggleAuto(true) and then ToggleAuto(false).
C7_Witness ==
    /\ program = "counter"
    /\ Len(applied) = 2
    /\ applied[1].msg = ToggleAuto(TRUE)
    /\ applied[2].msg = ToggleAuto(FALSE)
    /\ subs[subscription_task].stream.kind = "pending"

\* C8 as stated: every redraw tick completes; the drain ends and view is
\* called, whatever the command tasks and the streams produce meanwhile.
C8_DrainEnds ==
    (pc = "drain") ~> (pc = "view")

\* A ViewContext::send call has just been made.
ViewSent == sends' = sends + 1

\* The message of the call was appended to the mailbox.
Appended ==
    /\ Len(mailbox') = Len(mailbox) + 1
    /\ SubSeq(mailbox', 1, Len(mailbox)) = mailbox
    /\ mailbox'[Len(mailbox')].msg \in view(program, model)
    /\ mailbox'[Len(mailbox')].src = "view"

\* The message of the call was discarded.
Discarded == mailbox' = mailbox /\ model' = model /\ pc' = pc

\* C9 as stated: the message is appended if the mailbox has free capacity,
\* and discarded if it holds MAILBOX_CAPACITY messages or the consumer is gone.
C9_AppendedUnlessFull ==
    [][ ViewSent =>
          IF ~closed /\ Len(mailbox) < MAILBOX_CAPACITY
          THEN Appended
          ELSE Discarded ]_vars

\* C9, amended: send returns at once; the message is appended if the receiver
\* is alive and the messages in the mailbox together with the slots handed to
\* senders suspended in send number fewer than MAILBOX_CAPACITY; otherwise
\* (the mailbox full, every free slot handed to a suspended sender, or the
\* receiver dropped) it is discarded and the mailbox and the model are
\* unchanged.
C9_AppendedUnlessReserved ==
    [][ ViewSent =>
          IF ~closed /\ Len(mailbox) + Cardinality(granted) < MAILBOX_CAPACITY
          THEN Appended
          ELSE Discarded ]_vars

\* view has sent MaxViewSends messages while senders suspended in send held
\* the slots of the mailbox: none of them was appended.
C9_Witness ==
    /\ pc = "view"
    /\ sends = MaxViewSends
    /\ mailbox = << >>
    /\ Cardinality(granted) = MAILBOX_CAPACITY

\* C10: once the driver is dropped it holds no handle and no subscription
\* task it spawned remains that is not aborted.
C10_DropAborts ==
    pc = "dropped" => subscription_task = 0 /\ LiveTasks(subs) = {}

\* The driver was dropped on an ambient runtime, which keeps its tasks, while
\* a worker was polling the subscription task.
C10_Witness ==
    /\ pc = "dropped"
    /\ runtime = "Handle"
    /\ Len(applied) >= 1
    /\ \E i \in 1 .. SubSlots : subs[i].st = "ready" /\ subs[i].aborted

\* No task of the driver is left on the runtime.
NoTasks ==
    /\ \A i \in 1 .. CmdSlots : commands[i].st = "free"
    /\ \A i \in 1 .. SubSlots : subs[i].st = "free"

\* C11: once the driver, the consumer of the mailbox, is gone, no message is
\* delivered or applied any more; a subscription task that holds a message
\* ends at its failed send; and every task ends, also a command task that
\* was suspended in send on a full mailbox: none waits for ever.
C11_DeliveryFailure ==
    /\ [][ closed =>
             /\ closed'
             /\ mailbox' = << >>
             /\ enqueued' = enqueued
             /\ applied' = applied
             /\ model' = model
             /\ \A i \in 1 .. SubSlots :
                   (subs[i].st = "ready" /\ subs'[i] # subs[i]) => subs'[i] = FreeSub
             /\ \A i \in 1 .. CmdSlots :
                   commands'[i] # commands[i] => commands'[i] = FreeCmd ]_vars
    /\ closed ~> NoTasks

\* The driver was dropped on an ambient runtime while a command task was
\* suspended in send on the full mailbox.
C11_Witness ==
    /\ pc = "dropped"
    /\ runtime = "Handle"
    /\ \E i \in 1 .. CmdSlots : commands[i].st = "blocked" /\ commands[i].result.some

\* C12: a command task whose future resolves to None ends without a trace:
\* its completion leaves the mailbox, the model, the tasks suspended in send
\* and the subscription task as they were, nothing is applied, and no entry
\* of the mailbox ever stems from it.
C12_NoneDropped ==
    /\ [][ \A i \in 1 .. CmdSlots :
             ( /\ commands[i].st = "running"
               /\ ~commands[i].result.some
               /\ commands'[i] # commands[i]
               /\ pc' = pc )
             => /\ commands'[i] = FreeCmd
                /\ mailbox' = mailbox
                /\ permits' = permits
                /\ waiters' = waiters
                /\ enqueued' = enqueued
                /\ applied' = applied
                /\ model' = model
                /\ Kept
                /\ subscription_token' = subscription_token ]_vars
    /\ [](\A i \in 1 .. CmdSlots :
            (commands[i].st # "free" /\ ~commands[i].result.some)
                => /\ commands[i].st = "running"
                   /\ Occurrences(enqueued, commands[i].gid) = 0)

\* The only command task scheduled has ended while the driver ran and the
\* mailbox was empty, and nothing was ever inserted: it resolved to None.
C12_Witness ==
    /\ program = "abstract"
    /\ Alive
    /\ scheduled = 1
    /\ commands[1] = FreeCmd
    /\ originated = 0
    /\ enqueued = << >>
    /\ tick.views = 1

\* C13: when no ambient runtime exists and none can be created the run fails
\* before init, update, view or subscription is called and before any task
\* is spawned; in every run the model exists (init has been called) only
\* once a runtime is held, the ambient one when there is one and a private
\* one otherwise.
C13_StartupFailure ==
    /\ pc = "failed" =>
          /\ model = Uninit
          /\ runtime = "none"
          /\ derived = 0 /\ scheduled = 0 /\ applied = << >>
          /\ tick = NewTick /\ sends = 0 /\ ~view_context
          /\ subscription_task = 0 /\ NoTasks
    /\ (model # Uninit \/ derived > 0 \/ ~NoTasks) => runtime \in {"Owned", "Handle"}
    /\ runtime = "none" <=> pc \in {"start", "failed"}
    /\ \A created \in BOOLEAN : try_current_or_new(TRUE, created) = "Handle"
    /\ try_current_or_new(FALSE, TRUE) = "Owned"
    /\ try_current_or_new(FALSE, FALSE) = "Err"

\* The run has failed at startup.
C13_Witness ==
    /\ pc = "failed"
    /\ model = Uninit
    /\ program = "counter"

\* The driver's handle is taken from task i by this step.
HandleTaken(i) == subscription_task = i /\ subscription_task' # i

AllTagged(ms) == \A k \in 1 .. Len(ms) : ms[k].token.some

\* The two lists have the same length and pairwise equal tokens.
PairwiseEqual(a, b) ==
    /\ Len(a) = Len(b)
    /\ \A k \in 1 .. Len(a) : TokenEquals(a[k].token, b[k].token)

\* C15: the identity of a batch is present if and only if every member
\* carries a token; the identities of two batches are equal if and only if
\* the batches have the same number of members and pairwise equal member
\* tokens, in order.
C15_BatchIdentity ==
    (test = "batch_identity" /\ tpc = "done") =>
        /\ identity(ret[1]).some <=> AllTagged(args[1])
        /\ identity(ret[2]).some <=> AllTagged(args[2])
        /\ (AllTagged(args[1]) /\ AllTagged(args[2])) =>
              ( TokenEquals(identity(ret[1]), identity(ret[2]))
                    <=> PairwiseEqual(args[1], args[2]) )
        /\ \A n \in 1 .. 2 :
              ret[n].stream =
                  SelectAll([k \in 1 .. Len(args[n]) |-> args[n][k].stream])

\* Two batches of two tagged members that differ in the token of the second
\* member only: the identities differ.
C15_Witness ==
    /\ test = "batch_identity" /\ tpc = "done"
    /\ Len(args[1]) = 2 /\ Len(args[2]) = 2
    /\ AllTagged(args[1]) /\ AllTagged(args[2])
    /\ TokenEquals(args[1][1].token, args[2][1].token)
    /\ ~TokenEquals(args[1][2].token, args[2][2].token)
    /\ ~TokenEquals(identity(ret[1]), identity(ret[2]))

\* C16: the mapped subscription yields f of each item of the source, in the
\* order of the source and nothing else, and its identity is the source's:
\* absent if the source's is absent, an equal token otherwise.
C16_MapPreserves ==
    (test = "map" /\ tpc \in {"poll", "done"}) =>
        /\ identity(ret).some = args.token.some
        /\ args.token.some => TokenEquals(identity(ret), args.token)
        /\ Len(values) <= Len(args.items)
        /\ \A k \in 1 .. Len(values) :
              /\ values[k].tag = args.items[k].tag
              /\ values[k].arg = IF args.f = "double" THEN 2 * args.items[k].arg
                                 ELSE args.items[k].arg + 1
        /\ tpc = "done" => Len(values) = Len(args.items)

\* A tagged source of two items has been mapped by doubling and polled to
\* its end.
C16_Witness ==
    /\ test = "map" /\ tpc = "done"
    /\ args.f = "double"
    /\ args.token.some
    /\ args.items = << Value(1), Value(2) >>
    /\ values = << Value(2), Value(4) >>

\* The number of tasks of the commands before the k-th.
RECURSIVE TasksBefore(_, _)
TasksBefore(cs, k) ==
    IF k <= 1 THEN 0 ELSE TasksBefore(cs, k - 1) + Len(cs[k - 1])

\* C17: the tasks of Command::batch(commands) are the tasks of the commands,
\* each once, in the order of the commands: as many as the commands have
\* together, the j-th task of the k-th command behind all tasks of the
\* commands before it.
C17_BatchConcatenates ==
    (test = "command_batch" /\ tpc = "done") =>
        /\ Len(ret) = TasksBefore(args, Len(args) + 1)
        /\ \A k \in 1 .. Len(args) : \A j \in 1 .. Len(args[k]) :
              ret[TasksBefore(args, k) + j] = args[k][j]

\* A command of two tasks and a command of one task have been batched.
C17_Witness ==
    /\ test = "command_batch" /\ tpc = "done"
    /\ Len(args) = 2
    /\ Len(args[1]) = 2 /\ Len(args[2]) = 1
    /\ ret = << Some(Value(2)), Some(Value(3)), None >>

\* The items collected that member k emitted.
FromMember(k) == SelectSeq(values, LAMBDA v : v.arg \div 10 = k)

\* C18: of every member of a batch, the items delivered so far are the first
\* items the member emits, in its order, each once; nothing else is
\* delivered; and when the merged stream ends every item of every member
\* has been delivered.
C18_MergeDeliversAll ==
    (test = "batch_stream" /\ tpc \in {"poll", "done"}) =>
        /\ \A k \in 1 .. Len(args) :
              /\ IsPrefix(FromMember(k), MemberItems(k, args[k]))
              /\ tpc = "done" => FromMember(k) = MemberItems(k, args[k])
        /\ \A n \in 1 .. Len(values) : values[n].arg \div 10 \in 1 .. Len(args)

\* Two members of two items each were merged with the second member first
\* and the members taking turns.
C18_Witness ==
    /\ test = "batch_stream" /\ tpc = "done"
    /\ args = << 2, 2 >>
    /\ values = << Value(21), Value(11), Value(22), Value(12) >>

\* C19: the stream of interval and interval_with never ends: whatever it has
\* emitted, it is ready again (once the duration has elapsed) with a message
\* and never with the end, until the caller stops polling.  interval emits
\* its message every time; interval_with calls its factory once per
\* emission, so a counting factory yields 1, 2, 3, ...
C19_IntervalNeverEnds ==
    (test = "interval" /\ tpc # "call") =>
        /\ tpc \in {"poll", "stopped"}
        /\ tpc = "stopped" <=> Len(values) = MaxValues
        /\ poll_next(into_stream(ret)) # {}
        /\ \A r \in poll_next(into_stream(ret)) :
              r.item.some /\ r.stream.kind = "interval"
        /\ \A k \in 1 .. Len(values) :
              values[k] = IF args.fn = "count" THEN Value(k) ELSE args.msg
        /\ args.fn = "count" => into_stream(ret).factory.n = Len(values)

\* The caller has collected MaxValues items of a counting interval.
C19_Witness ==
    /\ test = "interval" /\ tpc = "stopped"
    /\ args.fn = "count"
    /\ Len(values) = MaxValues
    /\ values[MaxValues] = Value(MaxValues)

\* C20: tokens of different underlying types are not equal; tokens of one
\* type are equal exactly when their values are; and the clone of a token
\* compares to another token as the token itself does.
C20_TokenEquality ==
    (test = "token_eq" /\ tpc = "done") =>
        /\ args[1].type # args[2].type => ~ret.eq
        /\ args[1].type = args[2].type => (ret.eq <=> args[1].value = args[2].value)
        /\ ret.cloned = ret.eq

\* Tokens of two types that hold the same value have been compared.
C20_Witness ==
    /\ test = "token_eq" /\ tpc = "done"
    /\ args = << SubscriptionToken("int", 1), SubscriptionToken("str", 1) >>
    /\ ~ret.eq

\* C21: program.subscription is called once when the driver is built and
\* once for each message passed to update, in the step that applies the
\* message and schedules the command update returned, on the model update
\* left; no other step calls it, so a redraw tick that drains no message
\* does not.
C21_DerivedOncePerUpdate ==
    /\ [](pc \notin {"start", "failed"} => derived = 1 + Len(applied))
    /\ [](pc \in {"start", "failed"} => derived = 0)
    /\ [][ derived' # derived =>
             /\ derived' = derived + 1
             /\ \/ pc = "start" /\ pc' = "idle" /\ applied' = applied
                \/ /\ pc = "drain" /\ pc' = "drain" /\ mailbox # << >>
                   /\ applied' = Append(applied, Head(mailbox))
             /\ subscription_token' = identity(subscription(program, model'))
             /\ scheduled' - scheduled =
                   Cardinality({i \in 1 .. CmdSlots :
                                  commands[i].st = "free" /\ commands'[i].st = "running"})
           ]_vars
    /\ [][ (applied' # applied \/ model' # model) => derived' = derived + 1 ]_vars

\* Two messages were applied, each followed by a derivation, and then a
\* redraw tick has drained nothing and called view without deriving.
C21_Witness ==
    /\ program = "abstract"
    /\ pc = "view"
    /\ ~tick.drained
    /\ Len(applied) = 2
    /\ derived = 3

C23_ViewSendsAppliedLater ==
    /\ [](pc = "view" =>
            /\ tick.views = 1
            /\ \A k \in 1 .. Len(mailbox) : \A j \in 1 .. Len(applied) :
                  applied[j].n # mailbox[k].n)
    /\ [][ (pc = "view" \/ pc' = "view") =>
               model' = model /\ applied' = applied ]_vars
    /\ [][ (applied' # applied \/ (model' # model /\ pc # "start")) =>
               /\ pc = "drain" /\ pc' = "drain"
               /\ tick.views = 0
               /\ applied' = Append(applied, Head(mailbox)) ]_vars
    /\ [][ (ViewSent /\ pc = "view" /\ mailbox' # mailbox) =>
               /\ Appended
               /\ pc' = "view" ]_vars

\* A message view had sent was applied in the drain of a later tick; the
\* view of that tick has sent another, which waits in the mailbox.
C23_Witness ==
    /\ pc = "view"
    /\ tick.drained
    /\ Len(applied) = 1
    /\ applied[1].src = "view"
    /\ Len(mailbox) = 1
    /\ mailbox[1].src = "view"

\* The step appends to the mailbox the message m of sender src.
Enqueues(m, src) ==
    /\ Len(enqueued') = Len(enqueued) + 1
    /\ enqueued'[Len(enqueued')].msg = m
    /\ enqueued'[Len(enqueued')].src = src
    /\ mailbox' = Append(mailbox, enqueued'[Len(enqueued')])

Emits(i) == subs[i].st = "pending" /\ subs'[i].st = "ready"

\* The running task is one of an interval without a token.
UntaggedInterval ==
    /\ Alive
    /\ ~subscription_token.some
    /\ subs[subscription_task].stream.kind = "interval"

\* C25: an interval without a token is replaced each time a message is
\* applied, its own tick included, and the Delay of the new task starts at
\* zero; the Delay of the running task has never run longer than the time
\* since update was last called; and the task emits only when its Delay has
\* run the full duration.  So no tick is emitted while less than the
\* duration has passed since the last message was applied.
C25_RestartedIntervalStartsAnew ==
    /\ [](UntaggedInterval => timers.delay[subscription_task] <= timers.since)
    /\ [][ ( /\ derived' # derived
             /\ ~identity(subscription(program, model')).some
             /\ subscription(program, model').stream.kind = "interval" )
           => /\ Replaced(subscription(program, model'))
              /\ timers'.since = 0
              /\ timers'.delay[subscription_task'] = 0
              /\ subs'[subscription_task'].st = "pending" ]_vars
    /\ [][ \A i \in 1 .. SubSlots :
             (Emits(i) /\ subs[i].stream.kind = "interval") =>
                 /\ timers.delay[i] = Duration
                 /\ ~subscription_token.some => timers.since = Duration ]_vars
    /\ [][ (UntaggedInterval /\ timers.since < Duration) =>
               /\ originated' = originated \/ sends' = sends + 1
               /\ \A i \in 1 .. SubSlots : ~Emits(i) ]_vars

\* The interval of the counter has emitted its tick after a full duration;
\* applying the tick has replaced the task, and the Delay of the new task
\* has run one unit of time.
C25_Witness ==
    /\ program = "counter"
    /\ Alive
    /\ model.auto
    /\ Len(applied) = 2
    /\ applied[2].msg = Tick
    /\ subs[subscription_task].st = "pending"
    /\ timers.since = 1
    /\ timers.delay[subscription_task] = 1

\* update is called: the drain takes a message from the mailbox.
UpdateCalled == pc = "drain" /\ mailbox # << >> /\ mailbox' = Tail(mailbox)

\* C26: in the feedback program every call of update replaces the
\* subscription task by one of a fresh stream; and unless the run never
\* starts, fails at startup or the driver is dropped, update is called again
\* and again and the mailbox is non-empty again and again, without any user
\* input.
C26_FeedbackNeverRests ==
    /\ [][ UpdateCalled =>
             /\ subscription_task' # subscription_task
             /\ subs'[subscription_task'] = spawn_stream(feedback_subscription(model'))
             /\ subs'[subscription_task].st \in {"free", "ready"} ]_vars
    /\ \/ [](pc = "start")
       \/ <>(pc \in {"failed", "dropped"})
       \/ /\ []<><<UpdateCalled>>_vars
          /\ []<>(mailbox # << >>)

\* A message of the stream was applied, the task was replaced, and the new
\* task has emitted its one message into the mailbox and reached the end of
\* its stream.
C26_Witness ==
    /\ program = "feedback"
    /\ pc = "drain"
    /\ model.burst = 1
    /\ tick.drained /\ tick.restarted
    /\ subs[subscription_task].st = "done"
    /\ Len(mailbox) = 1
    /\ mailbox[1].src = "sub"

=============================================================================
